---------------------------- MODULE Spec2Model ----------------------------
(***************************************************************************)
(* A model of the MED symbolic-regression workflow:                        *)
(*   utils/general_utils.py  split_df, find_hof_file, move_hof_file        *)
(*   utils/MEDProcessor.py   MEDProcessor (validation, prepare_data,       *)
(*                           run_med_discovery, test_equations)            *)
(*   med_fitting.py          run_med_processor and the batch sweep loop    *)
(*                                                                         *)
(* Spec      one invocation of med_fitting.py on a disk left by earlier    *)
(*           invocations.                                                  *)
(* SplitSpec split_df applied to bounded datasets, fractions and shuffles. *)
(*                                                                         *)
(* Python floats are IEEE-754 doubles.  TLC's integers have 32 bits, so a  *)
(* double is a record [m |-> 53 bits, most significant first, e |-> the    *)
(* binary exponent of the last bit] and the arithmetic is done on bits.    *)
(***************************************************************************)
EXTENDS Naturals, Integers, Sequences, FiniteSets, Bags, TLC

(***************************************************************************)
(* Bounds of the model.                                                    *)
(***************************************************************************)
\* SplitSpec: a dataset of up to MaxPermRows rows takes every cell content
\* and every shuffle; a longer one, up to MaxRows rows, a sample of both.
MaxPermRows == 3
MaxRows == 90
\* SplitSpec: a split fraction is p/q with 0 < p < q <= MaxDen.
MaxDen == 10
\* SplitSpec: a cell holds 0..MaxVal.
MaxVal == 1
\* Spec: the input CSV has up to MaxCsvRows rows.
MaxCsvRows == 3
\* Spec: an equation table has up to MaxEqs records, of complexities
\* 1..MaxComplexity.
MaxEqs == 2
MaxComplexity == 2

\* Width of a double's significand.
MantBits == 53

(***************************************************************************)
(* Double-precision arithmetic as far as split_df uses it.                 *)
(***************************************************************************)
AllZero(bits) == \A i \in 1..Len(bits) : bits[i] = 0

Zeros(k) == [i \in 1..k |-> 0]

\* The w-bit binary numeral of v, 0 <= v < 2^w.
IntToBits(v, w) == [i \in 1..w |-> (v \div 2^(w - i)) % 2]

\* The value of a bit string of at most 30 bits.
RECURSIVE BitsToInt(_)
BitsToInt(bits) ==
    IF bits = << >> THEN 0
    ELSE 2 * BitsToInt(SubSeq(bits, 1, Len(bits) - 1)) + bits[Len(bits)]

\* bits without its leading zeros.
StripZeros(bits) ==
    IF AllZero(bits) THEN << >>
    ELSE LET first == CHOOSE i \in 1..Len(bits) :
                          bits[i] = 1 /\ \A j \in 1..(i - 1) : bits[j] = 0
         IN  SubSeq(bits, first, Len(bits))

\* bits + 1, one bit longer when the carry runs out of the top.
IncBits(bits) ==
    IF \A i \in 1..Len(bits) : bits[i] = 1 THEN <<1>> \o Zeros(Len(bits))
    ELSE LET last == CHOOSE i \in 1..Len(bits) :
                         bits[i] = 0 /\ \A j \in (i + 1)..Len(bits) : bits[j] = 1
         IN  SubSeq(bits, 1, last - 1) \o <<1>> \o Zeros(Len(bits) - last)

\* Round-to-nearest, ties-to-even, of the bit string `bits` (leading bit 1,
\* weight 2^e at its last bit) to MantBits bits; sticky tells that non-zero
\* digits lie below the string.
RoundBits(bits, e, sticky) ==
    LET n == Len(bits) IN
    IF n <= MantBits
    THEN [m |-> bits \o Zeros(MantBits - n), e |-> e - (MantBits - n)]
    ELSE LET keep   == SubSeq(bits, 1, MantBits)
             guard  == bits[MantBits + 1]
             rest   == SubSeq(bits, MantBits + 2, n)
             more   == sticky \/ ~AllZero(rest)
             up     == guard = 1 /\ (more \/ keep[MantBits] = 1)
             k      == n - MantBits
             inc    == IncBits(keep)
         IN  IF ~up THEN [m |-> keep, e |-> e + k]
             ELSE IF Len(inc) = MantBits THEN [m |-> inc, e |-> e + k]
             ELSE [m |-> SubSeq(inc, 1, MantBits), e |-> e + k + 1]

\* 2^k mod q, by repeated squaring.
RECURSIVE Pow2Mod(_, _)
Pow2Mod(k, q) ==
    IF k = 0 THEN 1 % q
    ELSE LET h == Pow2Mod(k \div 2, q)
             s == (h * h) % q
         IN  IF k % 2 = 0 THEN s ELSE (2 * s) % q

\* What is left of r/q below its first k binary digits, times 2^k * q
\* (0 <= r < q): the remainder of the long division after k digits.
FracRem(r, q, k) == (r * Pow2Mod(k, q)) % q

\* The first k binary digits of r/q after the point (0 <= r < q).
FracBits(r, q, k) ==
    [i \in 1..k |-> IF 2 * FracRem(r, q, i - 1) >= q THEN 1 ELSE 0]

\* Number of zero binary digits of p/q between the point and its first 1
\* (0 < p < q).
RECURSIVE LeadZeros(_, _)
LeadZeros(p, q) == IF 2 * p >= q THEN 0 ELSE 1 + LeadZeros(2 * p, q)

\* The double nearest to the decimal literal p/q, 0 < p < q: what Python's
\* parser makes of "0.7".
ToDouble(p, q) ==
    LET z == LeadZeros(p, q)
        r == p * 2^z
    IN  RoundBits(FracBits(r, q, MantBits + 1),
                  0 - (z + MantBits + 1),
                  FracRem(r, q, MantBits + 1) # 0)

\* bits * n as a bit string, for a MantBits-bit string and 0 < n < 2^12:
\* schoolbook multiplication on three limbs.
MulBits(bits, n) ==
    LET LimbBits == 18
        base == 2^LimbBits
        hi   == BitsToInt(SubSeq(bits, 1, MantBits - 2 * LimbBits))
        mid  == BitsToInt(SubSeq(bits, MantBits - 2 * LimbBits + 1, MantBits - LimbBits))
        lo   == BitsToInt(SubSeq(bits, MantBits - LimbBits + 1, MantBits))
        t0   == lo * n
        t1   == mid * n + t0 \div base
        t2   == hi * n + t1 \div base
    IN  StripZeros(IntToBits(t2, 30))
            \o IntToBits(t1 % base, LimbBits) \o IntToBits(t0 % base, LimbBits)

Zero == [m |-> Zeros(MantBits), e |-> 0]

\* split_frac * len(df_shuffled): a double times an int that a double holds
\* exactly; the exact product, rounded once.
MulInt(f, n) == IF n = 0 THEN Zero ELSE RoundBits(MulBits(f.m, n), f.e, FALSE)

\* int(x) of a double 0 <= x < 2^30: the integer part.
Trunc(f) ==
    IF MantBits + f.e <= 0 THEN 0
    ELSE BitsToInt(SubSeq(f.m, 1, MantBits + f.e))

\* general_utils.py line 34: int(split_frac * len(df_shuffled))
SplitIdx(split_frac, n) ==
    Trunc(MulInt(ToDouble(split_frac.num, split_frac.den), n))

(***************************************************************************)
(* Values.  None is the empty tuple and a value x that may be None is      *)
(* <<x>>.  A DataFrame is [columns, rows]: rows is a sequence of functions *)
(* from the column names to the cells.                                     *)
(***************************************************************************)
None == << >>
Some(x) == <<x>>
Get(opt) == opt[1]

Range(seq) == {seq[i] : i \in 1..Len(seq)}

RowOrders(n) ==
    {f \in [1..n -> 1..n] : \A i, j \in 1..n : f[i] = f[j] => i = j}

RECURSIVE SeqToBag(_)
SeqToBag(seq) ==
    IF seq = << >> THEN EmptyBag
    ELSE SeqToBag(Tail(seq)) (+) SetToBag({Head(seq)})

(***************************************************************************)
(* general_utils.py: split_df                                              *)
(***************************************************************************)
\* df.sample(frac=1, random_state=seed): the rows in the order the seeded
\* generator draws them; `order` lists the original row numbers drawn.
\* .reset_index(drop=True) renumbers them 0.., which a sequence does.
Sample(df, order) ==
    [columns |-> df.columns, rows |-> [i \in 1..Len(df.rows) |-> df.rows[order[i]]]]

\* frame.iloc[:k], 0 <= k
IlocHead(frame, k) ==
    [columns |-> frame.columns,
     rows    |-> SubSeq(frame.rows, 1, IF k < Len(frame.rows) THEN k ELSE Len(frame.rows))]

\* frame.iloc[k:] with the first row of the tail taken twice.
IlocTailOverlap(frame, k) ==
    [columns |-> frame.columns,
     rows    |-> SubSeq(frame.rows, IF k = 0 THEN 1 ELSE k, Len(frame.rows))]

\* frame.iloc[k:], 0 <= k
IlocTail(frame, k) ==
    [columns |-> frame.columns, rows |-> SubSeq(frame.rows, k + 1, Len(frame.rows))]

\* split_df(df, split_frac, seed), the generator having drawn `order`.
split_df(df, split_frac, order) ==
    LET df_shuffled == Sample(df, order)
        split_idx   == SplitIdx(split_frac, Len(df_shuffled.rows))
    IN  [train_df |-> IlocHead(df_shuffled, split_idx),
         test_df  |-> IlocTail(df_shuffled, split_idx)]

\* df.sort_values(by=names): ascending, columns compared left to right,
\* rows that compare equal kept in their order.
RowLess(r1, r2, by) ==
    \E i \in 1..Len(by) :
        /\ r1[by[i]] < r2[by[i]]
        /\ \A j \in 1..(i - 1) : r1[by[j]] = r2[by[j]]

RECURSIVE InsertSorted(_, _, _)
InsertSorted(sorted, row, by) ==
    IF sorted = << >> THEN <<row>>
    ELSE IF RowLess(row, Head(sorted), by) THEN <<row>> \o sorted
    ELSE <<Head(sorted)>> \o InsertSorted(Tail(sorted), row, by)

RECURSIVE SortValues(_, _)
SortValues(rows, by) ==
    IF rows = << >> THEN << >>
    ELSE InsertSorted(SortValues(SubSeq(rows, 1, Len(rows) - 1), by),
                      rows[Len(rows)], by)

(***************************************************************************)
(* Strings are sequences of tokens, so that formatting and splitting are   *)
(* computed and two formatted strings are equal only if their text is.     *)
(***************************************************************************)
Digit(d) == <<"0", "1", "2", "3", "4", "5", "6", "7", "8", "9">>[d + 1]

\* str(n) of a natural number
RECURSIVE Str(_)
Str(n) == IF n < 10 THEN <<Digit(n)>> ELSE Str(n \div 10) \o <<Digit(n % 10)>>

\* s.split(sep) for a string whose separators are tokens of their own
RECURSIVE StrSplit(_, _)
StrSplit(s, sep) ==
    IF \A i \in 1..Len(s) : s[i] # sep THEN <<s>>
    ELSE LET at == CHOOSE i \in 1..Len(s) :
                       s[i] = sep /\ \A j \in 1..(i - 1) : s[j] # sep
         IN  <<SubSeq(s, 1, at - 1)>> \o StrSplit(SubSeq(s, at + 1, Len(s)), sep)

(***************************************************************************)
(* med_fitting.py: the sweep's configuration                               *)
(***************************************************************************)
SEEDS == <<88, 92, 50, 57, 73, 77, 75, 93, 98, 96>>

STUDIES_PARAMS ==
    << <<"param1", "-", "param2", "-", "param3">>,
       <<"param1", "-", "param3">>,
       <<"param2", "-", "param3">> >>

CSV_NAME == <<"data.csv">>

\* list(itertools.product(a, b))
Product(a, b) ==
    [k \in 1..(Len(a) * Len(b)) |->
        <<a[((k - 1) \div Len(b)) + 1], b[((k - 1) % Len(b)) + 1]>>]

med_regression_params == Product(SEEDS, STUDIES_PARAMS)
total_regressions == Len(med_regression_params)

\* line 96: f"med_input_csvs/{CSV_NAME}"
MedInPath == <<"med_input_csvs/">> \o CSV_NAME
\* line 97: f"med_post/med_{seed}"
MedOutPath(s) == <<"med_post/med_">> \o Str(s)
\* line 100
Target == <<"target_col">>
\* line 16: the default of tt_split, the literal 0.7
TtSplit == [num |-> 7, den |-> 10]
\* os.path.join(dest_dir, "hall_of_fame.csv"), f"{folder}/hall_of_fame.csv"
HofIn(dir) == dir \o <<"/", "hall_of_fame.csv">>
\* line 50: f"{folder_save_path}/med_unseen.csv"
UnseenIn(dir) == dir \o <<"/", "med_unseen.csv">>

(***************************************************************************)
(* The disk: files maps a path to None or to <<[data, mtime]>>; dirs is    *)
(* the set of output directories that exist.                               *)
(***************************************************************************)
\* The directories the backend may have chosen under /var/folders/lp.
TmpPaths ==
    {<<"/var/folders/lp/", d, "/T/", "hall_of_fame.csv">> : d \in {"a", "b"}}

OutDirs == {MedOutPath(SEEDS[i]) : i \in 1..Len(SEEDS)}

Paths ==
    {MedInPath} \cup TmpPaths \cup {HofIn(d) : d \in OutDirs}
        \cup {UnseenIn(d) : d \in OutDirs}

\* line 43: what "/var/folders/lp/*/T**/**/hall_of_fame.csv" matches
MatchesHofPattern(path) ==
    /\ Len(path) = 4
    /\ path[1] = "/var/folders/lp/"
    /\ path[3] = "/T/"
    /\ path[4] = "hall_of_fame.csv"

SetMax(S) == CHOOSE x \in S : \A y \in S : y <= x

\* The modification time of a file written now.
NewMtime(files) ==
    1 + SetMax({0} \cup {Get(files[p]).mtime : p \in {q \in Paths : files[q] # None}})

\* glob.glob(pattern, recursive=True), as a set: the order is the
\* directory's.
Glob(files) == {p \in Paths : files[p] # None /\ MatchesHofPattern(p)}

\* The sequences listing each element of S once.
Listings(S) ==
    {l \in [1..Cardinality(S) -> S] : \A i, j \in 1..Cardinality(S) : l[i] = l[j] => i = j}

(***************************************************************************)
(* general_utils.py: find_hof_file, move_hof_file                          *)
(***************************************************************************)
\* max(files, key=os.path.getmtime): the first of the greatest
MostRecent(list, files) ==
    LET first == CHOOSE i \in 1..Len(list) :
                    /\ \A j \in 1..Len(list) :
                          Get(files[list[j]]).mtime <= Get(files[list[i]]).mtime
                    /\ \A j \in 1..(i - 1) :
                          Get(files[list[j]]).mtime < Get(files[list[i]]).mtime
    IN  list[first]

\* find_hof_file(pattern), glob having listed `list`
find_hof_file(list, files) ==
    IF Len(list) = 0 THEN None
    ELSE IF Len(list) > 1 THEN Some(MostRecent(list, files))
    ELSE Some(list[1])

\* shutil.copy where shutil.move is meant: the source stays.
ShutilCopy(files, src, dst) == [files EXCEPT ![dst] = files[src]]

\* shutil.move(src, dst) of an existing file: a rename
ShutilMove(files, src, dst) ==
    IF src = dst THEN files
    ELSE [files EXCEPT ![dst] = files[src], ![src] = None]

\* move_hof_file with the directory made before the file is looked at.
MoveHofMakedirsFirst(files, dirs, dest_dir, hof_file) ==
    IF hof_file = None
    THEN [files |-> files, dirs |-> dirs \cup {dest_dir}, ret |-> FALSE]
    ELSE [files |-> ShutilMove(files, Get(hof_file), HofIn(dest_dir)),
          dirs |-> dirs \cup {dest_dir}, ret |-> TRUE]

\* move_hof_file(dest_dir, hof_file): the disk after it, and what it returns
move_hof_file(files, dirs, dest_dir, hof_file) ==
    IF hof_file = None
    THEN [files |-> files, dirs |-> dirs, ret |-> FALSE]
    ELSE LET made      == IF dest_dir \notin dirs THEN dirs \cup {dest_dir} ELSE dirs
             dest_file == HofIn(dest_dir)
         IN  IF files[Get(hof_file)] # None
             THEN [files |-> ShutilMove(files, Get(hof_file), dest_file),
                   dirs |-> made, ret |-> TRUE]
             ELSE [files |-> files, dirs |-> made, ret |-> FALSE]

(***************************************************************************)
(* MEDProcessor.py                                                         *)
(***************************************************************************)
\* __init__ checking only the first name.
MissingFirstOnly(param_names, columns) ==
    SelectSeq(SubSeq(param_names, 1, 1), LAMBDA p : p \notin columns)

\* __init__ line 19: [p for p in param_names if p not in df.columns]
Missing(param_names, columns) ==
    SelectSeq(param_names, LAMBDA p : p \notin columns)

\* frame[param].min(), .max(): None (NaN) for an empty frame
ColumnMin(frame, param) ==
    IF frame.rows = << >> THEN None
    ELSE Some(CHOOSE v \in {frame.rows[i][param] : i \in 1..Len(frame.rows)} :
                 \A i \in 1..Len(frame.rows) : v <= frame.rows[i][param])

ColumnMax(frame, param) ==
    IF frame.rows = << >> THEN None
    ELSE Some(CHOOSE v \in {frame.rows[i][param] : i \in 1..Len(frame.rows)} :
                 \A i \in 1..Len(frame.rows) : frame.rows[i][param] <= v)

\* prepare_data lines 42-49, over the processor's whole dataset
Parameters(frame, param_names) ==
    [names    |-> param_names,
     minimums |-> [i \in 1..Len(param_names) |-> ColumnMin(frame, param_names[i])],
     maximums |-> [i \in 1..Len(param_names) |-> ColumnMax(frame, param_names[i])]]

\* pd.read_csv(path) that answers a missing file with an empty table.
PdReadCsvOrEmpty(files, path) ==
    IF files[path] = None THEN Some([columns |-> {}, rows |-> << >>])
    ELSE Some(Get(files[path]).data)

\* pd.read_csv(path): None stands for the FileNotFoundError it raises
PdReadCsv(files, path) ==
    IF files[path] = None THEN None ELSE Some(Get(files[path]).data)

\* line 99: tmp_path if tmp_path else f"{folder}/hall_of_fame.csv"
EqPath(tmp_path, folder) ==
    IF tmp_path # None /\ Get(tmp_path) # << >> THEN Get(tmp_path) ELSE HofIn(folder)

\* create_function(text, *param_names)(*values) for an equation that is
\* one parameter name: the value bound to it.
Evaluate(text, param_names, values) ==
    values[CHOOSE i \in 1..Len(param_names) : param_names[i] = text]

\* line 126: f"Complexity {complexity} {self.target} p err"
ErrColumn(complexity, target) ==
    <<"Complexity ">> \o Str(complexity) \o <<" ">> \o target \o <<" p err">>

Abs(x) == IF x < 0 THEN 0 - x ELSE x

\* line 125: |actual - pred| / (|actual| + 1e-8), kept as the two terms
RelErr(actual, pred) == [num |-> Abs(actual - pred), absActual |-> Abs(actual)]

\* lines 115-126: the dict after the first k equation records; a key
\* assigned again keeps its place and takes the new value.  `if func:`
\* holds of every compiled function.
RECURSIVE WithErrors(_, _, _, _, _)
WithErrors(result_row, test_row, eq_rows, k, self) ==
    IF k = 0 THEN result_row
    ELSE LET before == WithErrors(result_row, test_row, eq_rows, k - 1, self)
             eq_row == eq_rows[k]
             values == [i \in 1..Len(self.param_names) |-> test_row[self.param_names[i]]]
             pred   == Evaluate(eq_row[<<"Equation">>], self.param_names, values)
             actual == test_row[self.target]
             key    == ErrColumn(eq_row[<<"Complexity">>], self.target)
         IN  [keys |-> IF key \in Range(before.keys) THEN before.keys
                       ELSE Append(before.keys, key),
              vals |-> (key :> RelErr(actual, pred)) @@ before.vals]

\* lines 112-128: the dict of one test row, as its keys in insertion
\* order and its values
ResultRow(test_row, eq_rows, self) ==
    LET names == self.param_names \o
                    (IF self.target \in Range(self.param_names) THEN << >>
                     ELSE <<self.target>>)
        first == [keys |-> names, vals |-> [c \in Range(names) |-> test_row[c]]]
    IN  WithErrors(first, test_row, eq_rows, Len(eq_rows), self)

\* pd.DataFrame(results): the columns are the keys in the order they first
\* appear, none for an empty list
RECURSIVE FirstAppearance(_)
FirstAppearance(keyLists) ==
    IF keyLists = << >> THEN << >>
    ELSE LET before == FirstAppearance(SubSeq(keyLists, 1, Len(keyLists) - 1))
         IN  before \o SelectSeq(keyLists[Len(keyLists)],
                                 LAMBDA c : c \notin Range(before))

\* test_equations lines 102-130, the artifact read
ResultTable(test_frame, df_equations, self) ==
    LET sorted  == SortValues(test_frame.rows, self.param_names)
        results == [i \in 1..Len(sorted) |->
                       ResultRow(sorted[i], df_equations.rows, self)]
    IN  [columns |-> FirstAppearance([i \in 1..Len(results) |-> results[i].keys]),
         rows    |-> [i \in 1..Len(results) |-> results[i].vals]]

VARIABLES
    pc,                    \* the statement about to run
    index,                 \* line 95: enumerate's counter
    seed,                  \* line 95
    study_params,          \* line 95
    med_out_path,          \* line 97
    sweep_parameter_list,  \* line 99
    files,                 \* the disk: path -> None or <<[data, mtime]>>
    dirs,                  \* the disk: the output directories that exist
    df,                    \* the dataset (line 35; split_df's argument)
    med_study,             \* line 37: the MEDProcessor
    split_frac,            \* tt_split, a literal [num, den]
    sample_order,          \* the row numbers in the order df.sample drew them
    train_df,
    test_df,
    parameters,            \* line 38
    found,                 \* find_hof_file line 48: glob's list
    hof_path,              \* line 44
    moved,                 \* what move_hof_file returned (line 45)
    df_results,            \* line 49
    error,                 \* the exception that ended the script
    trace,                 \* history: the steps completed, in order
    runs,                  \* history: the combinations whose run completed
    fs_init,               \* history: the disk at the start
    fs_pre                 \* history: the disk when the artifact search began

loopVars == <<index, seed, study_params, med_out_path, sweep_parameter_list>>
diskVars == <<files, dirs>>
splitVars == <<sample_order, train_df, test_df>>
histVars == <<trace, runs, fs_init, fs_pre>>
vars == <<pc, loopVars, diskVars, df, med_study, split_frac, splitVars, parameters,
          found, hof_path, moved, df_results, error, histVars>>

(***************************************************************************)
(* SplitSpec: split_df on its own.                                         *)
(***************************************************************************)
SplitColumns == {"x"}

\* The datasets split_df is tried on: every content up to MaxPermRows rows,
\* one content for each greater length up to MaxRows.
SplitFrames ==
    {[columns |-> SplitColumns, rows |-> r] :
        r \in UNION {[1..n -> [SplitColumns -> 0..MaxVal]] : n \in 0..MaxPermRows}}
    \cup
    {[columns |-> SplitColumns,
      rows    |-> [i \in 1..n |-> [c \in SplitColumns |-> i % (MaxVal + 1)]]] :
        n \in (MaxPermRows + 1)..MaxRows}

\* The fractions p/q strictly between 0 and 1; split_df is handed the
\* double nearest to each.
Fractions == {f \in [num : 1..MaxDen, den : 2..MaxDen] : f.num < f.den}

\* The permutations the generator may draw for n rows: it is not modelled,
\* so any one for a short frame; the identity, the reversal and a rotation
\* for a long one.
Shuffles(n) ==
    IF n <= MaxPermRows THEN RowOrders(n)
    ELSE {[i \in 1..n |-> i], [i \in 1..n |-> n + 1 - i], [i \in 1..n |-> (i % n) + 1]}

SplitInit ==
    /\ pc = "split_df"
    /\ df \in {Some(f) : f \in SplitFrames}
    /\ split_frac \in Fractions
    /\ sample_order = None
    /\ train_df = None
    /\ test_df = None
    /\ index = 0
    /\ seed = None
    /\ study_params = None
    /\ med_out_path = None
    /\ sweep_parameter_list = None
    /\ files = [p \in Paths |-> None]
    /\ dirs = {}
    /\ med_study = None
    /\ parameters = None
    /\ found = None
    /\ hof_path = None
    /\ moved = None
    /\ df_results = None
    /\ error = None
    /\ trace = << >>
    /\ runs = << >>
    /\ fs_init = [files |-> files, dirs |-> dirs]
    /\ fs_pre = None

\* split_df(df, split_frac, seed)
SplitCall ==
    /\ pc = "split_df"
    /\ \E order \in Shuffles(Len(Get(df).rows)) :
          LET s == split_df(Get(df), split_frac, order) IN
          /\ sample_order' = Some(order)
          /\ train_df' = Some(s.train_df)
          /\ test_df' = Some(s.test_df)
    /\ pc' = "split_done"
    /\ UNCHANGED <<loopVars, diskVars, df, med_study, split_frac, parameters,
                   found, hof_path, moved, df_results, error, histVars>>

SplitNext == SplitCall

SplitSpec == SplitInit /\ [][SplitNext]_vars

\* C1: for every dataset D, fraction 0 < f < 1 and seed, split_df returns
\* |train| = floor(f * |D|) and |train| + |test| = |D|.
C1_SplitSizes ==
    pc = "split_done" =>
        /\ Len(Get(train_df).rows) = (split_frac.num * Len(Get(df).rows)) \div split_frac.den
        /\ Len(Get(train_df).rows) + Len(Get(test_df).rows) = Len(Get(df).rows)

\* C2: train and test are disjoint and together are the rows of D, each
\* exactly once and unchanged.
C2_SplitPartition ==
    pc = "split_done" =>
        LET n      == Len(Get(df).rows)
            order  == Get(sample_order)
            train  == Get(train_df).rows
            test   == Get(test_df).rows
            k      == Len(train)
            inTrain == {order[i] : i \in 1..k}
            inTest  == {order[k + j] : j \in 1..Len(test)}
        IN  /\ k + Len(test) = n
            /\ inTrain \cap inTest = {}
            /\ inTrain \cup inTest = 1..n
            /\ \A i \in 1..k : train[i] = Get(df).rows[order[i]]
            /\ \A j \in 1..Len(test) : test[j] = Get(df).rows[order[k + j]]
            /\ SeqToBag(train) (+) SeqToBag(test) = SeqToBag(Get(df).rows)

C2_Witness ==
    /\ pc = "split_done"
    /\ Len(Get(train_df).rows) >= 1
    /\ Len(Get(test_df).rows) >= 2
    /\ \E i, j \in 1..Len(Get(df).rows) : Get(df).rows[i] # Get(df).rows[j]

(***************************************************************************)
(* Spec: one invocation of med_fitting.py.                                 *)
(***************************************************************************)
\* run_med_processor lines 35-51: its statements in order
RunSteps ==
    <<"read_csv", "construct", "prepare_data", "run_med_discovery",
      "find_hof_file", "move_hof_file", "test_equations", "to_csv">>

\* prepare_data with the bounds taken before the split.
PrepareDataBoundsFirst == <<"bounds", "split_df">>

\* prepare_data lines 40-49: its statements in order
PrepareDataSteps == <<"split_df", "bounds">>

\* The statements of a run, prepare_data's in place of its call
Steps ==
    LET at == CHOOSE i \in 1..Len(RunSteps) : RunSteps[i] = "prepare_data"
    IN  SubSeq(RunSteps, 1, at - 1) \o PrepareDataSteps
            \o SubSeq(RunSteps, at + 1, Len(RunSteps))

\* The statement after `step`; after the last, line 103
After(step) ==
    LET at == CHOOSE i \in 1..Len(Steps) : Steps[i] = step
    IN  IF at = Len(Steps) THEN "progress" ELSE Steps[at + 1]

Raise(type, at) == Some([type |-> type, at |-> at])

\* The columns and contents of the input CSV: one observation at least,
\* the rows in descending order of their cells.
CsvColumns == {<<"param1">>, <<"param2">>, <<"param3">>, Target}

CsvFrames ==
    {[columns |-> cs, rows |-> [i \in 1..n |-> [c \in cs |-> n - i]]] :
        cs \in SUBSET CsvColumns, n \in 1..MaxCsvRows}

\* The equation tables the backend may write.
EquationColumns == {<<"Equation">>, <<"Complexity">>}

EqRecord(c) ==
    [col \in EquationColumns |-> IF col = <<"Equation">> THEN <<"param1">> ELSE c]

EqTables ==
    {[columns |-> EquationColumns, rows |-> [i \in 1..Len(cs) |-> EqRecord(cs[i])]] :
        cs \in UNION {[1..n -> 1..MaxComplexity] : n \in 0..MaxEqs}}

\* What an earlier invocation left behind: an artifact, a result table.
StaleArtifact == [columns |-> EquationColumns, rows |-> <<EqRecord(1)>>]
StaleResults == [columns |-> << >>, rows |-> << >>]

File(data, mtime) == Some([data |-> data, mtime |-> mtime])

\* The first combination's output directory: the only one an invocation
\* writes to.
FirstOutDir == MedOutPath(med_regression_params[1][1])

\* Where the backend writes under /var/folders/lp.
BackendTmpPath == <<"/var/folders/lp/", "a", "/T/", "hall_of_fame.csv">>

\* The artifacts left under /var/folders/lp: none, one, two of different
\* or of equal age.
StaleTmp ==
    {[p \in TmpPaths |-> None],
     [p \in TmpPaths |-> IF p = BackendTmpPath THEN File(StaleArtifact, 1) ELSE None],
     [p \in TmpPaths |-> IF p = BackendTmpPath THEN File(StaleArtifact, 1)
                         ELSE File(StaleArtifact, 2)],
     [p \in TmpPaths |-> File(StaleArtifact, 1)]}

\* The disks an invocation may start on.
InitialDisks ==
    {[files |-> [p \in Paths |->
                    IF p = MedInPath THEN csv
                    ELSE IF p \in TmpPaths THEN tmp[p]
                    ELSE IF p = HofIn(FirstOutDir) THEN out.hof
                    ELSE IF p = UnseenIn(FirstOutDir) THEN out.unseen
                    ELSE None],
      dirs  |-> out.dirs] :
        csv \in {None} \cup {File(f, 1) : f \in CsvFrames},
        tmp \in StaleTmp,
        out \in {[dirs |-> {}, hof |-> None, unseen |-> None],
                 [dirs |-> {FirstOutDir}, hof |-> None, unseen |-> None],
                 [dirs |-> {FirstOutDir}, hof |-> File(StaleArtifact, 1), unseen |-> None],
                 [dirs |-> {FirstOutDir}, hof |-> File(StaleArtifact, 1),
                  unseen |-> File(StaleResults, 1)]}}

Init ==
    /\ pc = "loop"
    /\ index = 0
    /\ seed = None
    /\ study_params = None
    /\ med_out_path = None
    /\ sweep_parameter_list = None
    /\ \E disk \in InitialDisks :
          /\ files = disk.files
          /\ dirs = disk.dirs
          /\ fs_init = disk
    /\ df = None
    /\ med_study = None
    /\ split_frac = TtSplit
    /\ sample_order = None
    /\ train_df = None
    /\ test_df = None
    /\ parameters = None
    /\ found = None
    /\ hof_path = None
    /\ moved = None
    /\ df_results = None
    /\ error = None
    /\ trace = << >>
    /\ runs = << >>
    /\ fs_pre = None

\* lines 95-102: the loop takes the next combination and calls
\* run_med_processor
LoopIter ==
    /\ pc = "loop"
    /\ index < total_regressions
    /\ LET combo == med_regression_params[index + 1] IN
          /\ seed' = Some(combo[1])
          /\ study_params' = Some(combo[2])
          /\ med_out_path' = Some(MedOutPath(combo[1]))
          /\ sweep_parameter_list' = Some(StrSplit(combo[2], "-"))
    /\ pc' = Steps[1]
    /\ UNCHANGED <<index, diskVars, df, med_study, split_frac, splitVars, parameters,
                   found, hof_path, moved, df_results, error, histVars>>

\* line 35: pd.read_csv(in_df_path)
ReadCsv ==
    /\ pc = "read_csv"
    /\ LET read == PdReadCsv(files, MedInPath) IN
          IF read = None
          THEN /\ error' = Raise("FileNotFoundError", pc)
               /\ pc' = "crashed"
               /\ UNCHANGED <<df, trace>>
          ELSE /\ df' = read
               /\ trace' = Append(trace, pc)
               /\ pc' = After(pc)
               /\ UNCHANGED error
    /\ UNCHANGED <<loopVars, diskVars, med_study, split_frac, splitVars, parameters,
                   found, hof_path, moved, df_results, runs, fs_init, fs_pre>>

\* line 37: MEDProcessor(param_list, df, target, folder_save_path)
Construct ==
    /\ pc = "construct"
    /\ IF Missing(Get(sweep_parameter_list), Get(df).columns) # << >>
       THEN /\ error' = Raise("ValueError", pc)
            /\ pc' = "crashed"
            /\ UNCHANGED <<med_study, trace>>
       ELSE /\ med_study' = Some([df               |-> Get(df),
                                  target           |-> Target,
                                  folder_save_name |-> Get(med_out_path),
                                  param_names      |-> Get(sweep_parameter_list)])
            /\ trace' = Append(trace, pc)
            /\ pc' = After(pc)
            /\ UNCHANGED error
    /\ UNCHANGED <<loopVars, diskVars, df, split_frac, splitVars, parameters,
                   found, hof_path, moved, df_results, runs, fs_init, fs_pre>>

\* prepare_data line 40: split_df(self.df, split_frac, seed)
PrepareSplit ==
    /\ pc = "split_df"
    /\ \E order \in RowOrders(Len(Get(med_study).df.rows)) :
          LET s == split_df(Get(med_study).df, split_frac, order) IN
          /\ sample_order' = Some(order)
          /\ train_df' = Some(s.train_df)
          /\ test_df' = Some(s.test_df)
    /\ trace' = Append(trace, pc)
    /\ pc' = After(pc)
    /\ UNCHANGED <<loopVars, diskVars, df, med_study, split_frac, parameters,
                   found, hof_path, moved, df_results, error, runs, fs_init, fs_pre>>

\* prepare_data lines 42-51: the bounds of every parameter
PrepareBounds ==
    /\ pc = "bounds"
    /\ parameters' = Some(Parameters(Get(med_study).df, Get(med_study).param_names))
    /\ trace' = Append(trace, pc)
    /\ pc' = After(pc)
    /\ UNCHANGED <<loopVars, diskVars, df, med_study, split_frac, splitVars,
                   found, hof_path, moved, df_results, error, runs, fs_init, fs_pre>>

\* line 39, run_med_discovery lines 62-85.  line 62 reads the target
\* column; medeq is not part of the repository: med.save may make the
\* study folder, and discover writes its hall of fame under
\* /var/folders/lp, into the study folder, or nowhere.
Discover ==
    /\ pc = "run_med_discovery"
    /\ IF Get(med_study).target \notin Get(train_df).columns
       THEN /\ error' = Raise("KeyError", pc)
            /\ pc' = "crashed"
            /\ UNCHANGED <<diskVars, trace>>
       ELSE /\ \E saved \in {dirs, dirs \cup {Get(med_study).folder_save_name}} :
                  \/ /\ dirs' = saved
                     /\ files' = files
                  \/ \E table \in EqTables :
                        /\ dirs' = saved
                        /\ files' = [files EXCEPT ![BackendTmpPath] =
                                                     File(table, NewMtime(files))]
                  \/ \E table \in EqTables :
                        /\ dirs' = dirs \cup {Get(med_study).folder_save_name}
                        /\ files' = [files EXCEPT
                                        ![HofIn(Get(med_study).folder_save_name)] =
                                            File(table, NewMtime(files))]
            /\ trace' = Append(trace, pc)
            /\ pc' = After(pc)
            /\ UNCHANGED error
    /\ UNCHANGED <<loopVars, df, med_study, split_frac, splitVars, parameters,
                   found, hof_path, moved, df_results, runs, fs_init, fs_pre>>

\* run_med_discovery: the backend raises
DiscoverFails ==
    /\ pc = "run_med_discovery"
    /\ Get(med_study).target \in Get(train_df).columns
    /\ error' = Raise("BackendError", pc)
    /\ pc' = "crashed"
    /\ UNCHANGED <<loopVars, diskVars, df, med_study, split_frac, splitVars, parameters,
                   found, hof_path, moved, df_results, histVars>>

\* lines 43-44: find_hof_file(hof_pattern)
FindHof ==
    /\ pc = "find_hof_file"
    /\ fs_pre' = Some([files |-> files, dirs |-> dirs])
    /\ \E list \in Listings(Glob(files)) :
          /\ found' = Some(list)
          /\ hof_path' = find_hof_file(list, files)
    /\ trace' = Append(trace, pc)
    /\ pc' = After(pc)
    /\ UNCHANGED <<loopVars, diskVars, df, med_study, split_frac, splitVars, parameters,
                   moved, df_results, error, runs, fs_init>>

\* line 45: move_hof_file(folder_save_path, hof_path); line 46 sleeps
MoveHof ==
    /\ pc = "move_hof_file"
    /\ LET after == move_hof_file(files, dirs, Get(med_out_path), hof_path) IN
          /\ files' = after.files
          /\ dirs' = after.dirs
          /\ moved' = Some(after.ret)
    /\ trace' = Append(trace, pc)
    /\ pc' = After(pc)
    /\ UNCHANGED <<loopVars, df, med_study, split_frac, splitVars, parameters,
                   found, hof_path, df_results, error, runs, fs_init, fs_pre>>

\* line 49: med_study.test_equations(test_df)
TestEquations ==
    /\ pc = "test_equations"
    /\ LET self         == Get(med_study)
           eq_path      == EqPath(None, self.folder_save_name)
           df_equations == PdReadCsv(files, eq_path)
       IN  IF df_equations = None
           THEN /\ error' = Raise("FileNotFoundError", pc)
                /\ pc' = "crashed"
                /\ UNCHANGED <<df_results, trace>>
           ELSE /\ df_results' = Some(ResultTable(Get(test_df), Get(df_equations), self))
                /\ trace' = Append(trace, pc)
                /\ pc' = After(pc)
                /\ UNCHANGED error
    /\ UNCHANGED <<loopVars, diskVars, df, med_study, split_frac, splitVars, parameters,
                   found, hof_path, moved, runs, fs_init, fs_pre>>

\* lines 50-51: df_results.to_csv(f"{folder_save_path}/med_unseen.csv")
ToCsv ==
    /\ pc = "to_csv"
    /\ IF Get(med_out_path) \notin dirs
       THEN /\ error' = Raise("OSError", pc)
            /\ pc' = "crashed"
            /\ UNCHANGED <<files, trace>>
       ELSE /\ files' = [files EXCEPT ![UnseenIn(Get(med_out_path))] =
                                          File(Get(df_results), NewMtime(files))]
            /\ trace' = Append(trace, pc)
            /\ pc' = After(pc)
            /\ UNCHANGED error
    /\ UNCHANGED <<loopVars, dirs, df, med_study, split_frac, splitVars, parameters,
                   found, hof_path, moved, df_results, runs, fs_init, fs_pre>>

\* line 103: the run has returned; progress is printed
Progress ==
    /\ pc = "progress"
    /\ runs' = Append(runs, <<Get(seed), Get(study_params)>>)
    /\ pc' = "break"
    /\ UNCHANGED <<loopVars, diskVars, df, med_study, split_frac, splitVars, parameters,
                   found, hof_path, moved, df_results, error, trace, fs_init, fs_pre>>

\* line 105: break
Break ==
    /\ pc = "break"
    /\ pc' = "done"
    /\ UNCHANGED <<loopVars, diskVars, df, med_study, split_frac, splitVars, parameters,
                   found, hof_path, moved, df_results, error, histVars>>

Next ==
    \/ LoopIter
    \/ ReadCsv
    \/ Construct
    \/ PrepareSplit
    \/ PrepareBounds
    \/ Discover
    \/ DiscoverFails
    \/ FindHof
    \/ MoveHof
    \/ TestEquations
    \/ ToCsv
    \/ Progress
    \/ Break

Spec == Init /\ [][Next]_vars
(***************************************************************************)
(* The claims about a run, checked under Spec.                             *)
(***************************************************************************)
IsPrefix(s, t) == Len(s) <= Len(t) /\ s = SubSeq(t, 1, Len(s))

OutHof == HofIn(Get(med_out_path))
OutUnseen == UnseenIn(Get(med_out_path))

\* C3: if a requested parameter name is not a column of the dataset, the
\* construction of the MEDProcessor fails with a validation error before
\* anything else is done: no processor exists, and no split, bounds,
\* discovery, relocation, evaluation or write happens.
C3_ValidationFirst ==
    (/\ df # None
     /\ \E i \in 1..Len(Get(sweep_parameter_list)) :
           Get(sweep_parameter_list)[i] \notin Get(df).columns)
    => /\ med_study = None
       /\ pc \in {"construct", "crashed"}
       /\ pc = "crashed" => error = Raise("ValueError", "construct")
       /\ sample_order = None /\ train_df = None /\ test_df = None
       /\ parameters = None
       /\ found = None /\ hof_path = None /\ moved = None
       /\ df_results = None
       /\ files = fs_init.files /\ dirs = fs_init.dirs
       /\ trace = <<"read_csv">>

C3_Witness ==
    /\ pc = "crashed"
    /\ error = Raise("ValueError", "construct")
    /\ Get(sweep_parameter_list)[1] \in Get(df).columns

\* C4: test_equations called with no equation artifact at the artifact
\* path fails with an error and returns no table, never an empty table,
\* and the run never writes med_unseen.csv.
C4_MissingArtifactFails ==
    /\ df_results # None => files[OutHof] # None
    /\ (moved # None /\ pc # "test_equations" /\ files[OutHof] = None)
       => /\ pc = "crashed"
          /\ error = Raise("FileNotFoundError", "test_equations")
    /\ error = Raise("FileNotFoundError", "test_equations")
       => /\ files[OutHof] = None
          /\ df_results = None
          /\ files[OutUnseen] = fs_init.files[OutUnseen]

C4_Witness ==
    /\ pc = "crashed"
    /\ error = Raise("FileNotFoundError", "test_equations")
    /\ Len(Get(test_df).rows) > 0

\* C5: relocation is a move: with an existing source file and no
\* destination directory, move_hof_file makes the directory, the file ends
\* at <dest>/hall_of_fame.csv, the source path no longer exists, and the
\* call returns True.
C5_RelocationMoves ==
    (/\ moved # None
     /\ hof_path # None
     /\ Get(fs_pre).files[Get(hof_path)] # None
     /\ Get(med_out_path) \notin Get(fs_pre).dirs)
    => /\ Get(med_out_path) \in dirs
       /\ files[OutHof] = Get(fs_pre).files[Get(hof_path)]
       /\ files[Get(hof_path)] = None
       /\ moved = Some(TRUE)

C5_Witness ==
    /\ pc = "test_equations"
    /\ hof_path # None
    /\ Get(fs_pre).files[Get(hof_path)] # None
    /\ Get(med_out_path) \notin Get(fs_pre).dirs
    /\ moved = Some(TRUE)

\* C6: the result table of test_equations has one row per test row and
\* exactly one relative-error column per equation record, named
\* "Complexity {c} {target} p err" from the record's complexity, also when
\* records share a complexity.
C6_OneColumnPerRecord ==
    df_results # None =>
        LET eqs     == Get(files[OutHof]).data.rows
            res     == Get(df_results)
            given   == Range(Get(med_study).param_names) \cup {Target}
            errCols == SelectSeq(res.columns, LAMBDA c : c \notin given)
        IN  /\ Len(res.rows) = Len(Get(test_df).rows)
            /\ errCols = [k \in 1..Len(eqs) |->
                             ErrColumn(eqs[k][<<"Complexity">>], Target)]

\* The order of a run as the claim has it, and as the code has it.
ClaimedOrder ==
    <<"read_csv", "construct", "bounds", "split_df", "run_med_discovery",
      "find_hof_file", "move_hof_file", "test_equations", "to_csv">>

CodeOrder ==
    <<"read_csv", "construct", "split_df", "bounds", "run_med_discovery",
      "find_hof_file", "move_hof_file", "test_equations", "to_csv">>

\* C7 as stated: the steps of a run happen in the order load, validate,
\* bounds, split, discover, relocate, evaluate, persist, each after the
\* one before it has completed.
C7_ClaimedOrder == IsPrefix(trace, ClaimedOrder)

\* C7 as amended: the steps of a run happen in the order load, validate,
\* split, bounds (over the full dataset), discover, relocate, evaluate,
\* persist, each after the one before it has completed.
C7_RunOrder ==
    /\ IsPrefix(trace, CodeOrder)
    /\ pc \in Range(CodeOrder) => pc = CodeOrder[Len(trace) + 1]
    /\ pc \in {"progress", "break", "done"} => trace = CodeOrder
    /\ parameters # None =>
          \A i \in 1..Len(Get(parameters).names), r \in 1..Len(Get(df).rows) :
              LET cell == Get(df).rows[r][Get(parameters).names[i]] IN
              /\ Get(Get(parameters).minimums[i]) <= cell
              /\ cell <= Get(Get(parameters).maximums[i])

C7_Witness ==
    /\ pc = "done"
    /\ trace = CodeOrder
    /\ Len(Get(test_df).rows) > 0
    /\ Len(Get(train_df).rows) > 0

\* C8 as stated: when the artifact search matches no file, find_hof_file
\* returns no path, move_hof_file returns False without an error, and
\* after the relocation the output directory holds no hall_of_fame.csv,
\* whatever earlier runs left on disk.
C8_NoArtifactAfterNoMatch ==
    (pc = "test_equations" /\ found = Some(<< >>))
    => /\ hof_path = None
       /\ moved = Some(FALSE)
       /\ error = None
       /\ files[OutHof] = None

\* C8 as amended: when the artifact search matches no file, find_hof_file
\* returns no path, move_hof_file returns False without an error, and the
\* relocation leaves the disk as it was: the output directory holds a
\* hall_of_fame.csv afterwards exactly if it did before.
C8_NoMatchLeavesDisk ==
    (moved # None /\ found = Some(<< >>))
    => /\ hof_path = None
       /\ moved = Some(FALSE)
       /\ dirs = Get(fs_pre).dirs
       /\ files[OutHof] = Get(fs_pre).files[OutHof]
       /\ pc = "test_equations" => (error = None /\ files = Get(fs_pre).files)

C8_Witness ==
    /\ pc = "test_equations"
    /\ found = Some(<< >>)
    /\ moved = Some(FALSE)
    /\ files[OutHof] # None

\* C9: the sweep runs one experiment for every combination of SEEDS and
\* STUDIES_PARAMS: when the driver ends normally every combination has
\* been run exactly once, in product order.
C9_SweepRunsAll == pc = "done" => runs = med_regression_params

\* C10: two distinct (seed, parameter-subset) combinations are given
\* distinct output directories.
C10_DistinctOutputDirs ==
    med_out_path # None =>
        \A k \in 1..total_regressions :
            med_regression_params[k] # <<Get(seed), Get(study_params)>>
                => MedOutPath(med_regression_params[k][1]) # Get(med_out_path)

=============================================================================
